---- MODULE Spec2Model ----
(***************************************************************************)
(* A model of scrape-archive_download.py: the size parser, the listing     *)
(* extractor, the persisted list (file_list.csv) and the download loop.    *)
(*                                                                         *)
(* Text is a sequence of one-character strings, so that strip, upper,      *)
(* split, unquote, urljoin and the csv quoting act on characters as the    *)
(* Python functions do.  A size is the exact quantity n / 10^d * 1024^e,   *)
(* kept as the record [n, d, e]: 2 * 1024^3 does not fit a 32-bit integer. *)
(***************************************************************************)
EXTENDS Integers, Sequences, FiniteSets, TLC

VARIABLES
  pc,             \* the position of the run
  size_str,       \* parse_size: its argument
  size_ret,       \* parse_size: its return value
  url,            \* the page URL given to scrape_archive
  page,           \* what the listing server answers: a status and table rows
  game_url_list,  \* scrape_archive / main: the URLs found
  game_name_list, \* scrape_archive / main: the names found
  total_size,     \* scrape_archive / main: the summed size estimate
  file_list,      \* file_list.csv: NoFile, or its data lines (after the header)
  edited,         \* whether file_list.csv was edited by hand at the prompt
  dir,            \* the download directory: NoDir, or file name -> bytes held
  row_i,          \* the index of the next line the csv reader yields
  calls,          \* one entry per download_file call made by main's loop
  last            \* the details of the latest download_file call

vars == << pc, size_str, size_ret, url, page, game_url_list, game_name_list,
           total_size, file_list, edited, dir, row_i, calls, last >>

-----------------------------------------------------------------------------
(* Bounds of the model.                                                    *)

MaxLen == 4        \* longest size string given to parse_size
MaxHref == 3       \* longest link target of the one-row listing pages
MaxRows == 3       \* most rows of a listing page made of the row kinds
MaxRecords == 2    \* most rows of the listing page of a whole run
MaxChunks == 3     \* the longest body served, in chunks
PartialChunk == 45200  \* the size of a last, partial chunk (250000 = 2 chunks + this)
OldSize == 7       \* the bytes held by a file already in the download directory

\* iter_content(chunk_size=100 * 1024)
ChunkSize == 102400

-----------------------------------------------------------------------------
(* Text helpers: Python's str methods on sequences of characters.          *)

\* All sequences over S of length 0..n.
SeqsUpTo(S, n) == UNION { [1..k -> S] : k \in 0..n }

Whitespace == {" "}

RECURSIVE LStrip(_)
LStrip(s) == IF s # <<>> /\ Head(s) \in Whitespace THEN LStrip(Tail(s)) ELSE s

RECURSIVE RStrip(_)
RStrip(s) ==
  IF s # <<>> /\ s[Len(s)] \in Whitespace THEN RStrip(SubSeq(s, 1, Len(s) - 1)) ELSE s

\* str.strip()
Strip(s) == RStrip(LStrip(s))

UpperChar(c) ==
  CASE c = "g" -> "G"
    [] c = "m" -> "M"
    [] c = "k" -> "K"
    [] c = "x" -> "X"
    [] OTHER -> c

\* str.upper()
Upper(s) == [i \in 1..Len(s) |-> UpperChar(s[i])]

\* str.endswith(c), c one character
EndsWith(s, c) == s # <<>> /\ s[Len(s)] = c

\* s[:-1]
ButLast(s) == IF s = <<>> THEN <<>> ELSE SubSeq(s, 1, Len(s) - 1)

-----------------------------------------------------------------------------
(* float(): the strings Python accepts and their value.  Over the model's  *)
(* characters a float literal is digits with at most one point and at      *)
(* least one digit; float() itself strips surrounding whitespace.          *)

Digits == {"1", "5"}

DigitVal(c) == IF c = "1" THEN 1 ELSE 5

Count(s, c) == Cardinality({i \in 1..Len(s) : s[i] = c})

\* Whether float(s) returns (TRUE) or raises ValueError (FALSE).
FloatOk(s) ==
  LET t == Strip(s) IN
    /\ \A i \in 1..Len(t) : t[i] \in Digits \cup {"."}
    /\ Count(t, ".") <= 1
    /\ \E i \in 1..Len(t) : t[i] \in Digits

RECURSIVE DigitsVal(_)
DigitsVal(s) ==
  IF s = <<>> THEN 0
  ELSE IF s[Len(s)] = "." THEN DigitsVal(ButLast(s))
  ELSE 10 * DigitsVal(ButLast(s)) + DigitVal(s[Len(s)])

\* The digits after the point.
FracLen(t) ==
  IF Count(t, ".") = 0 THEN 0
  ELSE Len(t) - (CHOOSE i \in 1..Len(t) : t[i] = ".")

\* float(s) * 1024 ** e, for a string float() accepts.
FloatTimes(s, e) ==
  LET t == Strip(s) IN [n |-> DigitsVal(t), d |-> FracLen(t), e |-> e]

\* The integer 0 that parse_size returns on ValueError.
Zero == [n |-> 0, d |-> 0, e |-> 0]

-----------------------------------------------------------------------------
(* parse_size                                                              *)

\* float(text) * 1024 ** e inside the try: the product, or 0 on ValueError.
TryFloatTimes(text, e) == IF FloatOk(text) THEN FloatTimes(text, e) ELSE Zero

\* A plausible slip: decimal rather than binary kilobytes would change the
\* power; here K is read with the power of M.
SuffixBranchesWrongK(s) ==
  IF EndsWith(s, "G") THEN TryFloatTimes(ButLast(s), 3)
  ELSE IF EndsWith(s, "M") THEN TryFloatTimes(ButLast(s), 2)
  ELSE IF EndsWith(s, "K") THEN TryFloatTimes(ButLast(s), 2)
  ELSE TryFloatTimes(s, 0)

\* The if / elif chain on the normalised string.
SuffixBranches(s) ==
  IF EndsWith(s, "G") THEN TryFloatTimes(ButLast(s), 3)
  ELSE IF EndsWith(s, "M") THEN TryFloatTimes(ButLast(s), 2)
  ELSE IF EndsWith(s, "K") THEN TryFloatTimes(ButLast(s), 1)
  ELSE TryFloatTimes(s, 0)

parse_size(s) == SuffixBranches(Upper(Strip(s)))

-----------------------------------------------------------------------------
(* urllib.parse.unquote, str.split('/') and urllib.parse.urljoin           *)

HexDigits == {"2", "5"}

\* The character a two-digit escape stands for.
Decode(h1, h2) ==
  CASE h1 = "2" /\ h2 = "2" -> "\""
    [] h1 = "2" /\ h2 = "5" -> "%"
    [] h1 = "5" /\ h2 = "2" -> "R"
    [] h1 = "5" /\ h2 = "5" -> "U"

\* urllib.parse.unquote: one pass, an escape that is not %XX is kept as is.
RECURSIVE unquote(_)
unquote(s) ==
  IF s = <<>> THEN <<>>
  ELSE IF s[1] = "%" /\ Len(s) >= 3 /\ s[2] \in HexDigits /\ s[3] \in HexDigits
    THEN <<Decode(s[2], s[3])>> \o unquote(SubSeq(s, 4, Len(s)))
  ELSE <<s[1]>> \o unquote(Tail(s))

\* The least index of s holding a character of C, or 0.
FirstOf(s, C) ==
  IF \E i \in 1..Len(s) : s[i] \in C
    THEN CHOOSE i \in 1..Len(s) : s[i] \in C /\ \A j \in 1..(i - 1) : s[j] \notin C
    ELSE 0

\* The greatest index of s holding c, or 0.
LastIndex(s, c) ==
  IF \E i \in 1..Len(s) : s[i] = c
    THEN CHOOSE i \in 1..Len(s) : s[i] = c /\ \A j \in (i + 1)..Len(s) : s[j] # c
    ELSE 0

\* s.split('/')
RECURSIVE SplitSlash(_)
SplitSlash(s) ==
  LET i == FirstOf(s, {"/"}) IN
    IF i = 0 THEN <<s>>
    ELSE <<SubSeq(s, 1, i - 1)>> \o SplitSlash(SubSeq(s, i + 1, Len(s)))

\* '/'.join(parts)
RECURSIVE JoinSlash(_)
JoinSlash(parts) ==
  IF parts = <<>> THEN <<>>
  ELSE IF Len(parts) = 1 THEN parts[1]
  ELSE parts[1] \o <<"/">> \o JoinSlash(Tail(parts))

\* s.split('/')[-1]
LastSegment(s) == SubSeq(s, LastIndex(s, "/") + 1, Len(s))

\* The scheme with its colon is one character of the model; it stands only
\* at the head of a URL.
SchemeChar == "https:"

\* urllib.parse.urlsplit(s, scheme=dflt): scheme, netloc, path, query, fragment.
urlsplit(s, dflt) ==
  LET hasScheme == s # <<>> /\ s[1] = SchemeChar
      s1 == IF hasScheme THEN Tail(s) ELSE s
      hasNet == Len(s1) >= 2 /\ s1[1] = "/" /\ s1[2] = "/"
      afterSl == IF hasNet THEN SubSeq(s1, 3, Len(s1)) ELSE <<>>
      delim == FirstOf(afterSl, {"/", "?", "#"})
      netloc == IF ~hasNet THEN <<>>
                ELSE IF delim = 0 THEN afterSl ELSE SubSeq(afterSl, 1, delim - 1)
      s2 == IF ~hasNet THEN s1
            ELSE IF delim = 0 THEN <<>> ELSE SubSeq(afterSl, delim, Len(afterSl))
      h == FirstOf(s2, {"#"})
      fragment == IF h = 0 THEN <<>> ELSE SubSeq(s2, h + 1, Len(s2))
      s3 == IF h = 0 THEN s2 ELSE SubSeq(s2, 1, h - 1)
      q == FirstOf(s3, {"?"})
      query == IF q = 0 THEN <<>> ELSE SubSeq(s3, q + 1, Len(s3))
      path == IF q = 0 THEN s3 ELSE SubSeq(s3, 1, q - 1)
  IN [scheme |-> IF hasScheme THEN <<SchemeChar>> ELSE dflt,
      netloc |-> netloc, path |-> path, query |-> query, fragment |-> fragment]

\* urllib.parse.urlunsplit for a scheme that uses a network location.
urlunsplit(p) ==
  LET u1 == IF p.netloc # <<>> \/ (p.scheme # <<>> /\ SubSeq(p.path, 1, 2) # <<"/", "/">>)
              THEN <<"/", "/">> \o p.netloc
                   \o (IF p.path # <<>> /\ p.path[1] # "/" THEN <<"/">> ELSE <<>>)
                   \o p.path
              ELSE p.path
      u2 == p.scheme \o u1
      u3 == IF p.query # <<>> THEN u2 \o <<"?">> \o p.query ELSE u2
  IN IF p.fragment # <<>> THEN u3 \o <<"#">> \o p.fragment ELSE u3

\* segments[1:-1] = filter(None, segments[1:-1])
DropInnerEmpty(segs) ==
  IF Len(segs) <= 2 THEN segs
  ELSE <<segs[1]>> \o SelectSeq(SubSeq(segs, 2, Len(segs) - 1), LAMBDA x : x # <<>>)
       \o <<segs[Len(segs)]>>

\* The loop of urljoin that resolves '.' and '..'.
RECURSIVE RemoveDots(_, _)
RemoveDots(segs, acc) ==
  IF segs = <<>> THEN acc
  ELSE IF Head(segs) = <<".", ".">>
    THEN RemoveDots(Tail(segs), IF acc = <<>> THEN acc ELSE SubSeq(acc, 1, Len(acc) - 1))
  ELSE IF Head(segs) = <<".">> THEN RemoveDots(Tail(segs), acc)
  ELSE RemoveDots(Tail(segs), Append(acc, Head(segs)))

\* base_parts: the base path's segments without its last, unless that is empty.
BaseParts(bpath) ==
  LET bp0 == SplitSlash(bpath) IN
    IF bp0[Len(bp0)] # <<>> THEN SubSeq(bp0, 1, Len(bp0) - 1) ELSE bp0

\* segments: those of an absolute path, or base_parts followed by the path's.
Segments(bpath, path) ==
  IF path[1] = "/" THEN SplitSlash(path)
  ELSE DropInnerEmpty(BaseParts(bpath) \o SplitSlash(path))

\* resolved_path, joined; the empty path is '/'.
ResolvedPath(segments) ==
  LET res0 == RemoveDots(segments, <<>>)
      resolved == IF segments[Len(segments)] \in {<<".">>, <<".", ".">>}
                    THEN Append(res0, <<>>) ELSE res0
      joined == JoinSlash(resolved)
  IN IF joined = <<>> THEN <<"/">> ELSE joined

\* urljoin once both URLs are split.
JoinSplit(ref, b, r) ==
  IF r.scheme # b.scheme THEN ref
  ELSE IF r.netloc # <<>> THEN urlunsplit(r)
  ELSE IF r.path = <<>>
    THEN urlunsplit([scheme |-> r.scheme, netloc |-> b.netloc, path |-> b.path,
                     query |-> IF r.query = <<>> THEN b.query ELSE r.query,
                     fragment |-> r.fragment])
  ELSE urlunsplit([scheme |-> r.scheme, netloc |-> b.netloc,
                   path |-> ResolvedPath(Segments(b.path, r.path)),
                   query |-> r.query, fragment |-> r.fragment])

\* urllib.parse.urljoin(base, ref)
urljoin(base, ref) ==
  IF base = <<>> THEN ref
  ELSE IF ref = <<>> THEN base
  ELSE JoinSplit(ref, urlsplit(base, <<>>), urlsplit(ref, urlsplit(base, <<>>).scheme))

-----------------------------------------------------------------------------
(* scrape_archive                                                          *)

\* A sum of sizes, exact: for each unit 1024^e / 10^d the count of units.
Units == (0..MaxLen) \X (0..3)

ZeroSum == [u \in Units |-> 0]

\* total_size += size
Plus(total, v) == [total EXCEPT ![<<v.d, v.e>>] = @ + v.n]

\* row.find_all('td')[-1]
SizeCellFirst(row) == row.tds[1]

SizeCell(row) == row.tds[Len(row.tds)]

\* One pass of the loop over the rows: a row is
\*   [a |-> "none" | "nohref" | "href", href |-> text, tds |-> texts of its cells].
\* link['href'] raises KeyError for an anchor without href; the except clause
\* prints a warning and the row adds nothing.
ScanRow(u, acc, row) ==
  IF row.a # "none" /\ row.tds # <<>>
    THEN IF row.a = "nohref" THEN acc
         ELSE [urls |-> Append(acc.urls, urljoin(u, row.href)),
               names |-> Append(acc.names, unquote(LastSegment(row.href))),
               total |-> Plus(acc.total, parse_size(SizeCell(row)))]
    ELSE acc

RECURSIVE ScanRows(_, _, _)
ScanRows(u, acc, rows) ==
  IF rows = <<>> THEN acc ELSE ScanRows(u, ScanRow(u, acc, Head(rows)), Tail(rows))

\* page.fetch is "ok", "http_error" (raise_for_status raises) or "net_error"
\* (requests.get raises): both are RequestException and give [], [], 0.
scrape_archive(u, p) ==
  IF p.fetch # "ok" THEN [urls |-> <<>>, names |-> <<>>, total |-> ZeroSum]
  ELSE ScanRows(u, [urls |-> <<>>, names |-> <<>>, total |-> ZeroSum], p.rows)

-----------------------------------------------------------------------------
(* file_list.csv: csv.writer and csv.DictReader                            *)

\* csv.writer (QUOTE_MINIMAL): a field holding the delimiter or the quote
\* character is quoted, its quote characters doubled.
RECURSIVE DoubleQuotes(_)
DoubleQuotes(f) ==
  IF f = <<>> THEN <<>>
  ELSE IF Head(f) = "\"" THEN <<"\"", "\"">> \o DoubleQuotes(Tail(f))
  ELSE <<Head(f)>> \o DoubleQuotes(Tail(f))

QuoteField(f) ==
  IF \E i \in 1..Len(f) : f[i] \in {",", "\""}
    THEN <<"\"">> \o DoubleQuotes(f) \o <<"\"">>
    ELSE f

\* writer.writerow([name, url]): the line, without its terminator.
writerow(name, u) == QuoteField(name) \o <<",">> \o QuoteField(u)

\* The csv reader's automaton on one line: st is "start" (start of a field),
\* "in" (unquoted field), "quoted" (quoted field) or "q2" (a quote seen inside
\* a quoted field).  The empty line gives the empty row.
RECURSIVE ReadFields(_, _, _, _)
ReadFields(line, st, field, fields) ==
  IF line = <<>>
    THEN IF st = "start" /\ fields = <<>> THEN <<>> ELSE Append(fields, field)
  ELSE
    LET c == Head(line)
        rest == Tail(line)
    IN CASE st = "start" ->
              IF c = "\"" THEN ReadFields(rest, "quoted", <<>>, fields)
              ELSE IF c = "," THEN ReadFields(rest, "start", <<>>, Append(fields, <<>>))
              ELSE ReadFields(rest, "in", <<c>>, fields)
         [] st = "in" ->
              IF c = "," THEN ReadFields(rest, "start", <<>>, Append(fields, field))
              ELSE ReadFields(rest, "in", Append(field, c), fields)
         [] st = "quoted" ->
              IF c = "\"" THEN ReadFields(rest, "q2", field, fields)
              ELSE ReadFields(rest, "quoted", Append(field, c), fields)
         [] st = "q2" ->
              IF c = "\"" THEN ReadFields(rest, "quoted", Append(field, c), fields)
              ELSE IF c = "," THEN ReadFields(rest, "start", <<>>, Append(fields, field))
              ELSE ReadFields(rest, "in", Append(field, c), fields)

\* A line ending in the delimiter closes with an empty field: the automaton is
\* left at the start of a field with fields already saved.
readrow(line) == ReadFields(line, "start", <<>>, <<>>)

-----------------------------------------------------------------------------
(* download_file                                                           *)

\* os.path.exists(os.path.join(download_dir, name)), for a plain file name.
FileExistsNever(files, name) == FALSE

FileExists(files, name) == name \in DOMAIN files

\* The number of chunks iter_content yields for a body of N bytes, were
\* the final partial chunk lost.
NumChunksFloor(N) == N \div ChunkSize

NumChunks(N) == (N + ChunkSize - 1) \div ChunkSize

\* response.iter_content(chunk_size): the lengths of the chunks of a body.
iter_content(N) ==
  [i \in 1..NumChunks(N) |-> IF i * ChunkSize <= N THEN ChunkSize
                               ELSE N - (i - 1) * ChunkSize]

RECURSIVE SumSeq(_)
SumSeq(q) == IF q = <<>> THEN 0 ELSE Head(q) + SumSeq(Tail(q))

\* The for loop over the chunks, from chunk i on: the connection drops when
\* the chunk after the first resp.after ones is awaited; each chunk is
\* written, then the progress is computed (downloaded / total_size).
RECURSIVE StreamLoop(_, _, _, _, _)
StreamLoop(chunks, resp, total, i, written) ==
  IF resp.drops /\ resp.after = i - 1
    THEN [exc |-> "RequestException", written |-> written]
  ELSE IF i > Len(chunks) THEN [exc |-> "none", written |-> written]
  ELSE LET w == Append(written, chunks[i]) IN
         IF total = 0 THEN [exc |-> "ZeroDivisionError", written |-> w]
         ELSE StreamLoop(chunks, resp, total, i + 1, w)

\* The file as the with block leaves it: created or truncated by open(.., "wb"),
\* holding what was written, also when the block is left by an exception.
Written(files, name, written) ==
  [n \in DOMAIN files \cup {name} |-> IF n = name THEN SumSeq(written) ELSE files[n]]

\* The body of the try block.  msg is what was printed last before the block
\* was left; exc the exception that left it, or "none".
TryBody(u, name, files, resp) ==
  IF resp.conn = "fail"
    THEN [files |-> files, exc |-> "RequestException", writes |-> <<>>, msg |-> "none"]
  ELSE IF resp.status # 200
    THEN [files |-> files, exc |-> "none", writes |-> <<>>, msg |-> "http_error"]
  ELSE IF resp.length = "malformed"
    THEN [files |-> files, exc |-> "ValueError", writes |-> <<>>, msg |-> "none"]
  ELSE IF ~resp.openable
    THEN [files |-> files, exc |-> "OSError", writes |-> <<>>, msg |-> "none"]
  ELSE
    LET total_size_ == IF resp.length = "exact" THEN resp.body ELSE 0
        st == StreamLoop(iter_content(resp.body), resp, total_size_, 1, <<>>)
        f == Written(files, name, st.written)
    IN IF st.exc # "none"
         THEN [files |-> f, exc |-> st.exc, writes |-> st.written, msg |-> "none"]
       ELSE IF st.written = <<>>
         \* elapsed_time was never bound: line 111 raises UnboundLocalError
         THEN [files |-> f, exc |-> "UnboundLocalError", writes |-> st.written,
               msg |-> "complete"]
       ELSE [files |-> f, exc |-> "none", writes |-> st.written, msg |-> "complete"]

\* The except clauses, were the partial file removed on a failure.
HandlersCleanup(name, files0, t) ==
  IF t.exc = "none"
    THEN [files |-> t.files, outcome |-> t.msg, raised |-> FALSE]
  ELSE [files |-> files0, raised |-> FALSE,
        outcome |-> IF t.exc = "RequestException" THEN "request_failed" ELSE "unexpected"]

\* The except clauses, were `except Exception` missing.
HandlersRequestOnly(name, files0, t) ==
  IF t.exc = "none"
    THEN [files |-> t.files, outcome |-> t.msg, raised |-> FALSE]
  ELSE IF t.exc = "RequestException"
    THEN [files |-> t.files, outcome |-> "request_failed", raised |-> FALSE]
  ELSE [files |-> t.files, outcome |-> "unexpected", raised |-> TRUE]

\* except requests.RequestException / except Exception: both print and return.
Handlers(name, files0, t) ==
  IF t.exc = "none"
    THEN [files |-> t.files, outcome |-> t.msg, raised |-> FALSE]
  ELSE IF t.exc = "RequestException"
    THEN [files |-> t.files, outcome |-> "request_failed", raised |-> FALSE]
  ELSE [files |-> t.files, outcome |-> "unexpected", raised |-> FALSE]

\* download_file(url, name, download_dir) when the server would answer resp.
\* shutil.disk_usage reports the free space of the directory main has just
\* ensured; it changes nothing.
download_file(u, name, files, resp) ==
  IF FileExists(files, name)
    THEN [files |-> files, requests |-> <<>>, outcome |-> "skipped",
          writes |-> <<>>, exc |-> "none", raised |-> FALSE]
  ELSE
    LET t == TryBody(u, name, files, resp)
        h == Handlers(name, files, t)
    IN [files |-> h.files, requests |-> <<u>>, outcome |-> h.outcome,
        writes |-> t.writes, exc |-> t.exc, raised |-> h.raised]

-----------------------------------------------------------------------------
(* The inputs: texts, pages, server answers, directories.                  *)

SizeChars == {"1", "5", ".", " ", "G", "M", "K", "g", "x"}

HrefChars == {"x", "/", ".", "?", "#", "%", "2", "5"}

PageURLs == { <<SchemeChar, "/", "/", "o", "/", "d", "/">>,
              <<SchemeChar, "/", "/", "o", "/", "d">> }

MainURL == <<SchemeChar, "/", "/", "o", "/", "d", "/">>

Row(a, href, tds) == [a |-> a, href |-> href, tds |-> tds]

\* Rows of every kind: with and without anchor, href and cells; a last cell
\* that differs from the first; a size that does not parse.
RowKinds ==
  { Row("href", <<"x">>, << <<"1", "K">> >>),
    Row("href", <<"x">>, << <<"x">>, <<"1", ".", "5", "G">> >>),
    Row("href", <<"y">>, << <<"x">> >>),
    Row("href", <<"y">>, <<>>),
    Row("none", <<>>, << <<"5">> >>),
    Row("nohref", <<>>, << <<"1", "K">> >>) }

\* The rows of a whole run: plain names, and a name that still holds an
\* escape once decoded.
MainRows ==
  { Row("href", <<"x">>, << <<"1", "K">> >>),
    Row("href", <<"%", "2", "5", "2", "5">>, << <<"5">> >>) }

FailedPages == { [fetch |-> f, rows |-> <<>>] : f \in {"http_error", "net_error"} }

ScrapePages ==
  FailedPages
  \cup { [fetch |-> "ok", rows |-> << Row("href", h, << <<"1", "K">> >>) >>] :
           h \in SeqsUpTo(HrefChars, MaxHref) }
  \cup { [fetch |-> "ok", rows |-> rs] : rs \in SeqsUpTo(RowKinds, MaxRows) }

MainPages ==
  FailedPages \cup { [fetch |-> "ok", rows |-> rs] : rs \in SeqsUpTo(MainRows, MaxRecords) }

NoResp == [conn |-> "none", status |-> 0, length |-> "absent", body |-> 0,
           drops |-> FALSE, after |-> 0, openable |-> TRUE]

Ok200 == [NoResp EXCEPT !.conn = "ok", !.status = 200]

\* What the server and the file system may do to one download: the request
\* fails; a status other than 200; a Content-Length that is no integer; a
\* path that cannot be opened for writing; a body of b bytes, its length
\* declared or not, received whole or dropped after k of its chunks.
Responses(sizes) ==
  { [NoResp EXCEPT !.conn = "fail"],
    [NoResp EXCEPT !.conn = "ok", !.status = 404],
    [Ok200 EXCEPT !.length = "malformed"],
    [Ok200 EXCEPT !.length = "exact", !.openable = FALSE] }
  \cup { [Ok200 EXCEPT !.length = l, !.body = b] : l \in {"absent", "exact"}, b \in sizes }
  \cup UNION { { [Ok200 EXCEPT !.length = l, !.body = b, !.drops = TRUE, !.after = k] :
                   l \in {"absent", "exact"}, k \in 0..(NumChunks(b) - 1) } : b \in sizes }

BodySizes ==
  { k * ChunkSize + r : k \in 0..(MaxChunks - 1), r \in {0, 1, PartialChunk, ChunkSize - 1} }
  \cup { MaxChunks * ChunkSize }

MainBodySizes == {0, ChunkSize + 1}

EmptyFiles == [n \in {} |-> 0]

NoList == [exists |-> FALSE, lines |-> <<>>]

\* A file_list.csv left by an earlier run.
StaleList ==
  [exists |-> TRUE, lines |-> << writerow(<<"y">>, MainURL \o <<"y">>) >>]

\* The names a run may find in the download directory.
OldNames == { <<"x">>, <<"%">> }

Dirs ==
  { [exists |-> FALSE, files |-> EmptyFiles] }
  \cup { [exists |-> TRUE, files |-> [n \in S |-> OldSize]] : S \in SUBSET OldNames }

NoCall == [called |-> FALSE, name |-> <<>>, url |-> <<>>, existed |-> FALSE,
           resp |-> NoResp, writes |-> <<>>, before |-> EmptyFiles,
           outcome |-> "none", exc |-> "none", raised |-> FALSE]

-----------------------------------------------------------------------------
(* The size parser alone.                                                  *)

InitSize ==
  /\ pc = "size_call"
  /\ size_str \in SeqsUpTo(SizeChars, MaxLen)
  /\ size_ret = Zero
  /\ url = <<>> /\ page = [fetch |-> "none", rows |-> <<>>]
  /\ game_url_list = <<>> /\ game_name_list = <<>> /\ total_size = ZeroSum
  /\ file_list = NoList /\ edited = FALSE
  /\ dir = [exists |-> FALSE, files |-> EmptyFiles]
  /\ row_i = 1 /\ calls = <<>> /\ last = NoCall

ParseSize ==
  /\ pc = "size_call"
  /\ pc' = "size_ret"
  /\ size_ret' = parse_size(size_str)
  /\ UNCHANGED << size_str, url, page, game_url_list, game_name_list, total_size,
                  file_list, edited, dir, row_i, calls, last >>

SpecSize == InitSize /\ [][ParseSize]_vars

-----------------------------------------------------------------------------
(* The listing extractor alone.                                            *)

InitScrape ==
  /\ pc = "scrape_call"
  /\ url \in PageURLs
  /\ page \in ScrapePages
  /\ game_url_list = <<>> /\ game_name_list = <<>> /\ total_size = ZeroSum
  /\ size_str = <<>> /\ size_ret = Zero
  /\ file_list = NoList /\ edited = FALSE
  /\ dir = [exists |-> FALSE, files |-> EmptyFiles]
  /\ row_i = 1 /\ calls = <<>> /\ last = NoCall

Scrape ==
  /\ pc = "scrape_call"
  /\ pc' = "scrape_ret"
  /\ \E r \in {scrape_archive(url, page)} :
       /\ game_url_list' = r.urls
       /\ game_name_list' = r.names
       /\ total_size' = r.total
  /\ UNCHANGED << size_str, size_ret, url, page, file_list, edited, dir, row_i,
                  calls, last >>

SpecScrape == InitScrape /\ [][Scrape]_vars

-----------------------------------------------------------------------------
(* main: the whole run.                                                    *)

Init ==
  /\ pc = "start"
  /\ url = MainURL
  /\ page \in MainPages
  /\ game_url_list = <<>> /\ game_name_list = <<>> /\ total_size = ZeroSum
  /\ size_str = <<>> /\ size_ret = Zero
  /\ file_list \in {NoList, StaleList}
  /\ edited = FALSE
  /\ dir \in Dirs
  /\ row_i = 1 /\ calls = <<>> /\ last = NoCall

\* From the URL prompt to "Press Enter to continue...": the page is scraped
\* and, if anything was found, file_list.csv is written anew.
ScrapeAndSave ==
  /\ pc = "start"
  /\ pc' = "prompt"
  /\ \E r \in {scrape_archive(url, page)} :
       /\ game_url_list' = r.urls
       /\ game_name_list' = r.names
       /\ total_size' = r.total
       /\ file_list' =
            IF r.urls # <<>>
              THEN [exists |-> TRUE,
                    lines |-> [i \in 1..Len(r.urls) |-> writerow(r.names[i], r.urls[i])]]
              ELSE file_list
  /\ UNCHANGED << size_str, size_ret, url, page, edited, dir, row_i, calls, last >>

Reverse(q) == [i \in 1..Len(q) |-> q[Len(q) + 1 - i]]

\* The user edits file_list.csv while the program waits: rows are removed
\* or reordered.
EditList ==
  /\ pc = "prompt"
  /\ file_list.exists
  /\ ~edited
  /\ \E ls \in {Tail(file_list.lines), Reverse(file_list.lines)} \ {file_list.lines} :
       file_list' = [file_list EXCEPT !.lines = ls]
  /\ edited' = TRUE
  /\ UNCHANGED << pc, size_str, size_ret, url, page, game_url_list, game_name_list,
                  total_size, dir, row_i, calls, last >>

\* From the folder prompt to the open of file_list.csv: the folder is made
\* if absent; open() raises FileNotFoundError, which nothing catches, if the
\* list was never written.
OpenList ==
  /\ pc = "prompt"
  /\ dir' = [dir EXCEPT !.exists = TRUE]
  /\ pc' = IF file_list.exists THEN "downloading" ELSE "crashed"
  /\ row_i' = 1
  /\ UNCHANGED << size_str, size_ret, url, page, game_url_list, game_name_list,
                  total_size, file_list, edited, calls, last >>

\* One pass of `for row in reader`, the server answering from R.  The header
\* line is the one main writes, so both keys are in every row.  (Each local
\* value is bound by \E over a one-element set, which evaluates it once.)
DownloadRowWith(R) ==
  /\ pc = "downloading"
  /\ row_i <= Len(file_list.lines)
  /\ \E fields \in {readrow(file_list.lines[row_i])} :
       IF fields = <<>>
         THEN \* DictReader skips an empty row
              /\ row_i' = row_i + 1
              /\ UNCHANGED << pc, dir, calls, last >>
       ELSE IF Len(fields) < 2
         THEN \* a missing field reads as None: None.strip() raises
              /\ pc' = "crashed"
              /\ UNCHANGED << row_i, dir, calls, last >>
       ELSE
         \E name \in {unquote(Strip(fields[1]))}, u \in {Strip(fields[2])} :
           \E existed \in {name \in DOMAIN dir.files} :
             \E resp \in (IF existed THEN {NoResp} ELSE R) :
               \E r \in {download_file(u, name, dir.files, resp)} :
                 /\ dir' = [dir EXCEPT !.files = r.files]
                 /\ calls' = Append(calls, [name |-> name, url |-> u, existed |-> existed,
                                            requests |-> r.requests, outcome |-> r.outcome])
                 /\ last' = [called |-> TRUE, name |-> name, url |-> u,
                             existed |-> existed, resp |-> resp, writes |-> r.writes,
                             before |-> dir.files, outcome |-> r.outcome, exc |-> r.exc,
                             raised |-> r.raised]
                 /\ pc' = IF r.raised THEN "crashed" ELSE pc
                 /\ row_i' = IF r.raised THEN row_i ELSE row_i + 1
  /\ UNCHANGED << size_str, size_ret, url, page, game_url_list, game_name_list,
                  total_size, file_list, edited >>

DownloadRow == DownloadRowWith(Responses(MainBodySizes))

\* The reader is exhausted: "Process completed!" and the last prompt.
Finish ==
  /\ pc = "downloading"
  /\ row_i > Len(file_list.lines)
  /\ pc' = "completed"
  /\ UNCHANGED << size_str, size_ret, url, page, game_url_list, game_name_list,
                  total_size, file_list, edited, dir, row_i, calls, last >>

Next == ScrapeAndSave \/ EditList \/ OpenList \/ DownloadRow \/ Finish

Spec == Init /\ [][Next]_vars

\* The program is sequential and blocking: a step that can be taken is taken.
FairSpec == Spec /\ WF_vars(OpenList) /\ WF_vars(DownloadRow) /\ WF_vars(Finish)

-----------------------------------------------------------------------------
(* The download phase alone, on lists of one or two records, with every    *)
(* body size.                                                              *)

InitFetch ==
  /\ pc = "downloading"
  /\ url = MainURL
  /\ page = [fetch |-> "none", rows |-> <<>>]
  /\ game_url_list = <<>> /\ game_name_list = <<>> /\ total_size = ZeroSum
  /\ size_str = <<>> /\ size_ret = Zero
  /\ \E ns \in SeqsUpTo(OldNames, MaxRecords) \ {<<>>} :
       file_list = [exists |-> TRUE,
                    lines |-> [i \in 1..Len(ns) |-> writerow(ns[i], MainURL \o ns[i])]]
  /\ edited = FALSE
  /\ dir \in { d \in Dirs : d.exists }
  /\ row_i = 1 /\ calls = <<>> /\ last = NoCall

FetchRow == DownloadRowWith(Responses(BodySizes))

SpecFetch == InitFetch /\ [][FetchRow \/ Finish]_vars

-----------------------------------------------------------------------------
(* The properties.                                                         *)

\* C9: parse_size trims and upper-cases its argument, then returns the
\* numeric prefix times 1024^3, 1024^2 or 1024 for the suffix G, M or K and
\* the number itself without a suffix; when the numeric part is no number
\* it returns 0.
C9_ParseSize ==
  pc = "size_ret" =>
    LET t == Upper(Strip(size_str))
        sfx == IF t # <<>> /\ t[Len(t)] \in {"G", "M", "K"} THEN t[Len(t)] ELSE ""
        num == Strip(IF sfx = "" THEN t ELSE SubSeq(t, 1, Len(t) - 1))
        power == CASE sfx = "G" -> 3 [] sfx = "M" -> 2 [] sfx = "K" -> 1 [] OTHER -> 0
        isNumber == /\ num # <<>>
                    /\ \A i \in 1..Len(num) : num[i] \in {"1", "5", "."}
                    /\ Cardinality({i \in 1..Len(num) : num[i] = "."}) <= 1
                    /\ num # <<".">>
    IN /\ isNumber => /\ size_ret.e = power
                      /\ size_ret.n = DigitsVal(num)
                      /\ size_ret.d = FracLen(num)
       /\ ~isNumber => size_ret = Zero
       /\ size_str = <<"1", ".", "5", "G">> => size_ret = [n |-> 15, d |-> 1, e |-> 3]
       /\ size_str = <<" ", "1", "g", " ">> => size_ret = [n |-> 1, d |-> 0, e |-> 3]
       /\ size_str = <<"5", "5", "M">> => size_ret = [n |-> 55, d |-> 0, e |-> 2]
       /\ size_str = <<"1", "5", "k">> => size_ret = [n |-> 15, d |-> 0, e |-> 1]
       /\ size_str = <<"5", "1", "5">> => size_ret = [n |-> 515, d |-> 0, e |-> 0]
       /\ size_str = <<"x", "x", "x">> => size_ret = Zero

C9_Witness ==
  /\ pc = "size_ret"
  /\ size_str = <<"1", ".", "5", "G">>
  /\ size_ret = [n |-> 15, d |-> 1, e |-> 3]

\* The sum of parse_size over the last cells of rows.
RECURSIVE SumOfLastCells(_)
SumOfLastCells(rows) ==
  IF rows = <<>> THEN ZeroSum
  ELSE Plus(SumOfLastCells(SubSeq(rows, 1, Len(rows) - 1)),
            parse_size(rows[Len(rows)].tds[Len(rows[Len(rows)].tds)]))

\* The lists hold one entry per row of em, in order, and the total is the
\* sum over the last cells of em.
EntriesAre(em) ==
  /\ Len(game_url_list) = Len(em)
  /\ Len(game_name_list) = Len(em)
  /\ \A i \in 1..Len(em) :
       /\ i <= Len(game_url_list) => game_url_list[i] = urljoin(url, em[i].href)
       /\ i <= Len(game_name_list) => game_name_list[i] = unquote(LastSegment(em[i].href))
  /\ total_size = SumOfLastCells(em)

\* C7 (as amended): scrape_archive emits exactly one entry, in document order
\* and without de-duplication, for each row whose first anchor carries an
\* href and that has at least one cell; rows without an anchor or a cell, and
\* rows whose anchor has no href, are omitted; the lists have the same length,
\* index i of both from the same row; the total is the sum of parse_size over
\* the last cell of the emitted rows.
C7_Amended ==
  (pc = "scrape_ret" /\ page.fetch = "ok") =>
    EntriesAre(SelectSeq(page.rows, LAMBDA r : r.a = "href" /\ r.tds # <<>>))

\* C7 (as stated): one entry for each row that has an anchor and a cell.
C7_Original ==
  (pc = "scrape_ret" /\ page.fetch = "ok") =>
    EntriesAre(SelectSeq(page.rows, LAMBDA r : r.a # "none" /\ r.tds # <<>>))

\* Three rows, the second without an anchor, the third with two cells: two
\* entries.
C7_Witness ==
  /\ pc = "scrape_ret"
  /\ Len(page.rows) = 3
  /\ page.rows[1].a = "href" /\ page.rows[2].a = "none" /\ page.rows[3].a = "href"
  /\ Len(page.rows[3].tds) = 2
  /\ Len(game_url_list) = 2 /\ Len(game_name_list) = 2
  /\ total_size = Plus(Plus(ZeroSum, [n |-> 1, d |-> 0, e |-> 1]), [n |-> 15, d |-> 1, e |-> 3])

\* C8: every entry's name is the final path segment of its resolved URL,
\* percent-decoded.
C8_NameIsFinalSegment ==
  pc = "scrape_ret" =>
    \A i \in 1..Len(game_url_list) :
      game_name_list[i] = unquote(LastSegment(urlsplit(game_url_list[i], <<>>).path))

\* The latest call asked the server for the body and began to stream it.
Streamed ==
  /\ last.called /\ ~last.existed
  /\ last.resp.conn = "ok" /\ last.resp.status = 200
  /\ last.resp.length # "malformed" /\ last.resp.openable

\* C3: with no Content-Length (or a length of 0) the progress computation
\* does not fail, every chunk is written and the file holds the whole body.
C3_UnknownLengthGuarded ==
  (/\ Streamed /\ ~last.resp.drops
   /\ (last.resp.length = "absent" \/ last.resp.body = 0)) =>
    /\ last.exc # "ZeroDivisionError"
    /\ SumSeq(last.writes) = last.resp.body
    /\ dir.files[last.name] = last.resp.body

\* C4: a body of N >= 1 bytes with Content-Length N, received whole into a
\* file that did not exist, leaves a file of N bytes written as
\* ceil(N / 102400) chunks, all but possibly the last of 102400 bytes.
C4_WholeBody ==
  (/\ Streamed /\ ~last.resp.drops
   /\ last.resp.length = "exact" /\ last.resp.body >= 1) =>
    LET N == last.resp.body
        w == last.writes
    IN /\ last.outcome = "complete" /\ ~last.raised
       /\ Len(w) * 102400 >= N /\ (Len(w) - 1) * 102400 < N
       /\ \A i \in 1..(Len(w) - 1) : w[i] = 102400
       /\ w[Len(w)] = N - (Len(w) - 1) * 102400
       /\ dir.files[last.name] = N

\* 250,000 bytes: two full chunks and one partial.
C4_Witness ==
  /\ Streamed /\ ~last.resp.drops /\ last.resp.length = "exact"
  /\ last.resp.body = 250000
  /\ last.writes = <<102400, 102400, 45200>>
  /\ dir.files[last.name] = 250000

\* C5: when the connection drops after k chunks were received, download_file
\* returns without raising and removes nothing: the file holds the k chunks,
\* and the loop goes on to the next record.
C5_PartialFileKept ==
  (/\ Streamed /\ last.resp.drops
   /\ (last.resp.length = "exact" \/ last.resp.after = 0)) =>
    /\ ~last.raised /\ last.outcome = "request_failed"
    /\ last.name \in DOMAIN dir.files
    /\ dir.files[last.name] = last.resp.after * 102400
    /\ Len(last.writes) = last.resp.after
    /\ pc \in {"downloading", "completed"}
    /\ row_i = Len(calls) + 1

\* A drop after one chunk, and the next record processed after it.
C5_Witness ==
  /\ pc = "completed"
  /\ Len(calls) = 2
  /\ calls[1].outcome = "request_failed"
  /\ calls[1].name \in DOMAIN dir.files
  /\ dir.files[calls[1].name] = 102400
  /\ calls[2].requests # <<>>

\* C1: a request is issued for a record if and only if no file of its name
\* is in the download directory at its turn; when the file is there the call
\* returns at once, asks nothing of the network and leaves the file as it is.
C1_RequestIffAbsent ==
  /\ \A i \in 1..Len(calls) :
       /\ (calls[i].requests # <<>>) <=> ~calls[i].existed
       /\ calls[i].requests \in {<<>>, <<calls[i].url>>}
  /\ (last.called /\ last.existed) =>
       /\ dir.files = last.before
       /\ last.outcome = "skipped"
       /\ last.writes = <<>>

\* Two records, the first already present: exactly one request.
C1_Witness ==
  /\ pc = "completed"
  /\ Len(calls) = 2
  /\ calls[1].existed /\ calls[1].requests = <<>>
  /\ ~calls[2].existed /\ calls[2].requests = <<calls[2].url>>

\* The (name, URL) pairs the reader yields from file_list.csv, as main
\* passes them on.
Records ==
  [i \in 1..Len(file_list.lines) |->
     LET f == readrow(file_list.lines[i]) IN <<unquote(Strip(f[1])), Strip(f[2])>>]

Handed == [i \in 1..Len(calls) |-> <<calls[i].name, calls[i].url>>]

\* C2: every record of the persisted list is handed to download_file exactly
\* once and in order, whatever the outcome of the records before it, and the
\* download phase always reaches "Process completed".
C2_AllRecordsProcessed ==
  /\ [](pc \in {"downloading", "completed"} => Handed = SubSeq(Records, 1, Len(calls)))
  /\ [](pc = "completed" => Handed = Records)
  /\ [](pc = "downloading" => <>(pc = "completed"))

\* A record whose download failed unexpectedly, and the next one processed.
C2_Witness ==
  /\ pc = "completed"
  /\ Len(calls) = 2
  /\ calls[1].outcome = "unexpected"
  /\ calls[2].outcome = "complete"

\* C6: when the listing page cannot be retrieved, scrape_archive returns no
\* entry and total 0, and the run goes on along the normal path to its end.
C6_NormalPath ==
  page.fetch \in {"http_error", "net_error"} =>
    /\ pc # "start" => (game_url_list = <<>> /\ game_name_list = <<>> /\ total_size = ZeroSum)
    /\ pc # "crashed"

\* C10: when file_list.csv is not edited, the (name, URL) pairs passed to
\* download_file are the entries the extractor produced in this run, in
\* order and unchanged.
C10_RoundTrip ==
  (pc = "completed" /\ ~edited /\ game_url_list # <<>>) =>
    Handed = [i \in 1..Len(game_url_list) |-> <<game_name_list[i], game_url_list[i]>>]

====
